---- MODULE Spec2Model ----
(***************************************************************************)
(* Model of src/main.js: the employee generator (generateEmployeeData)     *)
(* and the name-statistics aggregator (getEmployeeChartContent).           *)
(*                                                                         *)
(* Time is counted in whole ticks (the milliseconds of a JS Date), with    *)
(* the epoch (1970-01-01T00:00:00.000Z) at tick 0.  A formatted birthdate  *)
(* string "Y-M-DTh:m:s.mmmZ" is represented by the wall-clock reading it   *)
(* spells, again in ticks: two strings are equal iff their readings are.   *)
(***************************************************************************)
EXTENDS Integers, Sequences, FiniteSets

\* ---------------------------------------------------------------- bounds
\* Largest dtoIn.count drawn.
MaxCount == 2
\* Largest dtoIn.age.min / dtoIn.age.max drawn.
MaxAge == 1
\* The birthdate's Math.random() is drawn from
\* { k / RandomSteps : k \in 0 .. RandomSteps-1 }.
RandomSteps == 3
\* Ticks in one calendar year.
YearLen == 2
\* Longest employee array handed directly to getEmployeeChartContent.
MaxLen == 3
\* Number of getEmployeeChartContent calls made on one array.
MaxCalls == 2

\* ----------------------------------------------------------- environment
\* new Date() at the time of the call (line 178), in ticks since the epoch.
\* It is smaller than MaxAge * YearLen so that birthdates before the epoch
\* (negative time values) occur as well as birthdates after it.
Now == 1
\* Offsets of local time from UTC, in ticks, that the host may be set to.
TzOffsets == {-1, 0, 1}

\* ----------------------------------------------------------- corpora
\* getNameLists(): a two-name prefix of each list.
getNameLists == [male |-> <<"Jan", "Petr">>, female |-> <<"Jana", "Marie">>]
\* getSurnameList(): one member of the list.
getSurnameList == <<"Svoboda">>
\* const workloads = [10, 20, 30, 40]
workloads == <<10, 20, 30, 40>>

VARIABLES
    dtoIn,           \* generateEmployeeData's argument: [count, age |-> [min, max]]
    tz,              \* the host's local-time offset from UTC
    pc,              \* position in generateEmployeeData
    dateRange,       \* calculateDateRange's result
    employees,       \* the employees array
    usedBirthdates,  \* the Set of birthdate strings emitted in this run
    i,               \* the for loop's counter
    pending,         \* createEmployee's locals while the birthdate is sought
    randomTime,      \* generateUniqueBirthdate: the instant last sampled, if any
    birthdateStr,    \* generateUniqueBirthdate: let birthdateStr, if assigned
    nameCounts,      \* analyzeEmployeeNames' counting object
    dtoOut,          \* the DTO last returned by getEmployeeChartContent
    calls            \* number of getEmployeeChartContent calls completed

vars == <<dtoIn, tz, pc, dateRange, employees, usedBirthdates, i, pending,
          randomTime, birthdateStr, nameCounts, dtoOut, calls>>

genVars == <<dtoIn, tz, pc, dateRange, employees, usedBirthdates, i, pending,
             randomTime, birthdateStr>>
aggVars == <<nameCounts, dtoOut, calls>>

\* ------------------------------------------------------------ Math, Date
\* The values the birthdate's Math.random() is drawn from, as numerators
\* over RandomSteps.
Randoms == 0 .. (RandomSteps - 1)

\* The values Math.floor(Math.random() * n) takes, Math.random() being any
\* real of [0, 1): every index of a list of n elements.
RandomIndex(n) == 0 .. (n - 1)

\* The values Math.random() < 0.5 takes.
RandomHalf == BOOLEAN

\* new Date(x) for the real number x = num / den: the time value is x
\* truncated toward zero (ToIntegerOrInfinity in TimeClip).
TimeClip(num, den) ==
    IF num >= 0 THEN num \div den ELSE -((-num) \div den)

\* Date.prototype.setFullYear(getFullYear() - years) on a copy of now.
YearsBefore(now, years) == now - years * YearLen

\* The local wall-clock reading of instant t on a host whose offset is off:
\* what getFullYear/getMonth/getDate/getHours/.../getMilliseconds spell.
LocalReading(t, off) == t + off

\* The instant an ISO-8601 string ending in "Z" denotes: its reading taken
\* as UTC.
ParseISO(str) == str

\* ------------------------------------------------------------- generator
\* calculateDateRange(dtoIn): minDate is now moved back age.max years,
\* maxDate is now moved back age.min years, range their difference.
calculateDateRange(d) ==
    LET minDate == YearsBefore(Now, d.age.max)
        maxDate == YearsBefore(Now, d.age.min)
    IN  [minDate |-> minDate, maxDate |-> maxDate, range |-> maxDate - minDate]

\* formatDateToISO(date): the local getters' reading, followed by "Z".
formatDateToISO(date) == LocalReading(date, tz)

\* new Date(dateRange.minDate.getTime() + Math.random() * dateRange.range)
\* for the draw r / RandomSteps.
sampleBirthdate(dr, r) == TimeClip(dr.minDate * RandomSteps + r * dr.range, RandomSteps)

\* A slip in the choice of list: every name is taken from the male list.
nameListAlwaysMale(names, gender) == names.male

\* gender === "male" ? names.male : names.female
nameList(names, gender) == IF gender = "male" THEN names.male ELSE names.female

\* usedBirthdates.has(birthdateStr): the do-while's condition.
hasBirthdate(used, str) == str \in used

\* A slip in the bookkeeping: the emitted string is not recorded.
addBirthdateForgets(used, str) == used

\* usedBirthdates.add(birthdateStr)
addBirthdate(used, str) == used \cup {str}

\* A slip in the loop's bound: one pass too many.
loopConditionOffByOne(k, count) == k <= count

\* i < dtoIn.count: the for loop's condition.
loopCondition(k, count) == k < count

\* A local that holds no value yet is <<>>; one that holds v is <<v>>.
Undefined == <<>>
Value(v) == <<v>>

NoEmployee == [gender |-> "none", name |-> "none", surname |-> "none", workload |-> 0]
EmptyCounts == [all |-> <<>>, male |-> <<>>, female |-> <<>>,
                femalePartTime |-> <<>>, maleFullTime |-> <<>>]
NoDto == [names |-> EmptyCounts, chartData |-> EmptyCounts]

\* The configurations drawn: the well-formed ones within the bounds.
Configs ==
    {d \in [count : 0 .. MaxCount, age : [min : 0 .. MaxAge, max : 0 .. MaxAge]] :
        d.age.min <= d.age.max}

ValidConfig(d) == d.count >= 0 /\ 0 <= d.age.min /\ d.age.min <= d.age.max

\* generateEmployeeData(dtoIn) is entered.
Init ==
    /\ dtoIn \in Configs
    /\ tz \in TzOffsets
    /\ pc = "start"
    /\ dateRange = [minDate |-> 0, maxDate |-> 0, range |-> 0]
    /\ employees = <<>>
    /\ usedBirthdates = {}
    /\ i = 0
    /\ pending = NoEmployee
    /\ randomTime = Undefined
    /\ birthdateStr = Undefined
    /\ nameCounts = EmptyCounts
    /\ dtoOut = NoDto
    /\ calls = 0

\* Lines 19-25: the locals are set up and the date range is computed once.
generateEmployeeData ==
    /\ pc = "start"
    /\ employees' = <<>>
    /\ usedBirthdates' = {}
    /\ dateRange' = calculateDateRange(dtoIn)
    /\ i' = 0
    /\ pc' = "loop"
    /\ UNCHANGED <<dtoIn, tz, pending, randomTime, birthdateStr, aggVars>>

\* createEmployee, lines 197-205: gender, workload, name and surname are
\* drawn, each from its own Math.random() call, and generateUniqueBirthdate
\* is entered with birthdateStr declared and not yet assigned.
createEmployee ==
    /\ pc = "loop"
    /\ loopCondition(i, dtoIn.count)
    /\ \E below \in RandomHalf, w \in RandomIndex(Len(workloads)) :
         LET gender   == IF below THEN "male" ELSE "female"
             workload == workloads[w + 1]
             list     == nameList(getNameLists, gender)
         IN  \E n \in RandomIndex(Len(list)), sn \in RandomIndex(Len(getSurnameList)) :
               LET name    == list[n + 1]
                   surname == getSurnameList[sn + 1]
               IN  pending' = [gender |-> gender, name |-> name,
                               surname |-> surname, workload |-> workload]
    /\ randomTime' = Undefined
    /\ birthdateStr' = Undefined
    /\ pc' = "birthdate"
    /\ UNCHANGED <<dtoIn, tz, dateRange, employees, usedBirthdates, i, aggVars>>

\* One pass of generateUniqueBirthdate's do-while, lines 219-223.  A string
\* already used sends the loop round again; a fresh one is recorded, the
\* employee is built (line 207) and pushed (line 27), and i is incremented.
generateUniqueBirthdate ==
    /\ pc = "birthdate"
    /\ \E r \in Randoms :
         LET birthdate == sampleBirthdate(dateRange, r)
             str       == formatDateToISO(birthdate)
         IN  /\ randomTime' = Value(birthdate)
             /\ birthdateStr' = Value(str)
             /\ IF hasBirthdate(usedBirthdates, str)
                THEN /\ pc' = "birthdate"
                     /\ UNCHANGED <<employees, usedBirthdates, i, pending>>
                ELSE /\ usedBirthdates' = addBirthdate(usedBirthdates, str)
                     /\ employees' = Append(employees,
                            [gender |-> pending.gender, birthdate |-> str,
                             name |-> pending.name, surname |-> pending.surname,
                             workload |-> pending.workload])
                     /\ i' = i + 1
                     /\ pending' = NoEmployee
                     /\ pc' = "loop"
    /\ UNCHANGED <<dtoIn, tz, dateRange, aggVars>>

\* Lines 30-31: the loop is over and the array is returned.
returnEmployees ==
    /\ pc = "loop"
    /\ ~loopCondition(i, dtoIn.count)
    /\ pc' = "done"
    /\ UNCHANGED <<dtoIn, tz, dateRange, employees, usedBirthdates, i, pending,
                   randomTime, birthdateStr, aggVars>>

GenNext == generateEmployeeData \/ createEmployee \/ generateUniqueBirthdate
              \/ returnEmployees

\* ------------------------------------------------------------ aggregator
\* A JS object with string keys that are not array indices is modelled as
\* the sequence of its properties [name, count] in insertion order: the
\* order Object.entries enumerates them in.

\* A slip in the set-up: the counting object of the previous call is kept.
initializeNameCountsKeepsOld == nameCounts

\* initializeNameCounts(): five empty objects.
initializeNameCounts == EmptyCounts

\* obj[name] || 0
getOrZero(obj, name) ==
    IF \E j \in 1 .. Len(obj) : obj[j].name = name
    THEN (CHOOSE e \in {obj[j] : j \in 1 .. Len(obj)} : e.name = name).count
    ELSE 0

\* obj[name] = value: an existing property keeps its place, a new one is
\* added after the others.
setProperty(obj, name, value) ==
    IF \E j \in 1 .. Len(obj) : obj[j].name = name
    THEN [j \in 1 .. Len(obj) |->
            IF obj[j].name = name THEN [name |-> name, count |-> value] ELSE obj[j]]
    ELSE Append(obj, [name |-> name, count |-> value])

\* obj[name] = (obj[name] || 0) + 1
increment(obj, name) == setProperty(obj, name, getOrZero(obj, name) + 1)

\* A slip in the female branch: full-time instead of part-time.
countEmployeeFemaleFullTime(nc, employee) ==
    LET name == employee.name
        c1   == [nc EXCEPT !.all = increment(nc.all, name)]
    IN  IF employee.gender = "male"
        THEN LET c2 == [c1 EXCEPT !.male = increment(c1.male, name)]
             IN  IF employee.workload = 40
                 THEN [c2 EXCEPT !.maleFullTime = increment(c2.maleFullTime, name)]
                 ELSE c2
        ELSE LET c2 == [c1 EXCEPT !.female = increment(c1.female, name)]
             IN  IF employee.workload = 40
                 THEN [c2 EXCEPT !.femalePartTime = increment(c2.femalePartTime, name)]
                 ELSE c2

\* A slip in the branching: else-if (gender === "female") instead of else.
countEmployeeElseIfFemale(nc, employee) ==
    LET name == employee.name
        c1   == [nc EXCEPT !.all = increment(nc.all, name)]
    IN  IF employee.gender = "male"
        THEN LET c2 == [c1 EXCEPT !.male = increment(c1.male, name)]
             IN  IF employee.workload = 40
                 THEN [c2 EXCEPT !.maleFullTime = increment(c2.maleFullTime, name)]
                 ELSE c2
        ELSE IF employee.gender = "female"
        THEN LET c2 == [c1 EXCEPT !.female = increment(c1.female, name)]
             IN  IF employee.workload # 40
                 THEN [c2 EXCEPT !.femalePartTime = increment(c2.femalePartTime, name)]
                 ELSE c2
        ELSE c1

\* The body of countNamesByCategory's loop for one employee, lines 76-90.
countEmployee(nc, employee) ==
    LET name == employee.name
        c1   == [nc EXCEPT !.all = increment(nc.all, name)]
    IN  IF employee.gender = "male"
        THEN LET c2 == [c1 EXCEPT !.male = increment(c1.male, name)]
             IN  IF employee.workload = 40
                 THEN [c2 EXCEPT !.maleFullTime = increment(c2.maleFullTime, name)]
                 ELSE c2
        ELSE LET c2 == [c1 EXCEPT !.female = increment(c1.female, name)]
             IN  IF employee.workload # 40
                 THEN [c2 EXCEPT !.femalePartTime = increment(c2.femalePartTime, name)]
                 ELSE c2

\* countNamesByCategory(employees, nameCounts): the loop over the array.
RECURSIVE countNamesByCategory(_, _)
countNamesByCategory(emps, nc) ==
    IF emps = <<>> THEN nc
    ELSE countNamesByCategory(Tail(emps), countEmployee(nc, Head(emps)))

\* Object.entries(nameDict): the [key, value] pairs in property order.
ObjectEntries(obj) == [j \in 1 .. Len(obj) |-> <<obj[j].name, obj[j].count>>]

\* Object.fromEntries(entries): the pairs are set one after another.
RECURSIVE ObjectFromEntries(_)
ObjectFromEntries(entries) ==
    IF entries = <<>> THEN <<>>
    ELSE LET n == Len(entries)
         IN  setProperty(ObjectFromEntries(SubSeq(entries, 1, n - 1)),
                         entries[n][1], entries[n][2])

\* A slip in the comparator: a[1] - b[1], ascending.
compareAscending(a, b) == a[2] - b[2]

\* A slip in the comparator: b[1] >= a[1] ? 1 : -1, which never answers 0.
compareNeverEqual(a, b) == IF b[2] >= a[2] THEN 1 ELSE -1

\* (a, b) => b[1] - a[1]   (a[1] of JS is the pair's second component)
compare(a, b) == b[2] - a[2]

\* Array.prototype.sort(compare): a comes before b when compare(a, b) < 0,
\* and elements that compare equal keep their order (the sort is stable
\* in every engine that has the Object.fromEntries of line 136).
RECURSIVE sort(_)
sort(arr) ==
    IF arr = <<>> THEN <<>>
    ELSE LET n     == Len(arr)
             front == sort(SubSeq(arr, 1, n - 1))
             e     == arr[n]
             k     == Cardinality({j \in 1 .. Len(front) : compare(front[j], e) <= 0})
         IN  SubSeq(front, 1, k) \o <<e>> \o SubSeq(front, k + 1, Len(front))

\* sortAndConvertToChartData(nameDict)
sortAndConvertToChartData(nameDict) ==
    LET sorted == sort(ObjectEntries(nameDict))
    IN  [j \in 1 .. Len(sorted) |-> [label |-> sorted[j][1], value |-> sorted[j][2]]]

\* sortNamesObject(nameDict)
sortNamesObject(nameDict) ==
    LET sortedEntries == sort(ObjectEntries(nameDict))
    IN  ObjectFromEntries(sortedEntries)

\* createDtoOut(nameCounts)
createDtoOut(nc) ==
    [names |->
        [all            |-> sortNamesObject(nc.all),
         male           |-> sortNamesObject(nc.male),
         female         |-> sortNamesObject(nc.female),
         femalePartTime |-> sortNamesObject(nc.femalePartTime),
         maleFullTime   |-> sortNamesObject(nc.maleFullTime)],
     chartData |->
        [all            |-> sortAndConvertToChartData(nc.all),
         male           |-> sortAndConvertToChartData(nc.male),
         female         |-> sortAndConvertToChartData(nc.female),
         femalePartTime |-> sortAndConvertToChartData(nc.femalePartTime),
         maleFullTime   |-> sortAndConvertToChartData(nc.maleFullTime)]]

\* getEmployeeChartContent(employees) = analyzeEmployeeNames(employees),
\* called once an array is at hand: the one generateEmployeeData returned
\* (main, lines 8-9) or one the caller supplies.
getEmployeeChartContent ==
    /\ pc = "done"
    /\ calls < MaxCalls
    /\ LET counted == countNamesByCategory(employees, initializeNameCounts)
       IN  /\ nameCounts' = counted
           /\ dtoOut' = createDtoOut(counted)
    /\ calls' = calls + 1
    /\ UNCHANGED genVars

\* generateEmployeeData(dtoIn) alone.
Next == GenNext

Spec == Init /\ [][Next]_vars

\* main(dtoIn): generateEmployeeData, then one getEmployeeChartContent on
\* the array it returned.
main == GenNext \/ (calls = 0 /\ getEmployeeChartContent)

MainSpec == Init /\ [][main]_vars

\* The single thread keeps running: a step that can be taken is taken.
FairSpec == Spec /\ WF_vars(GenNext)

\* The employee arrays handed directly to getEmployeeChartContent: any
\* name of the corpus with any gender string and a part- or full-time
\* workload.
AggGenders == {"male", "female", "other"}
AggNames == {"Jan", "Petr", "Jana"}
AggWorkloads == {10, 40}
AggEmployees == [gender : AggGenders, name : AggNames, workload : AggWorkloads]
AggInputs == UNION {[1 .. n -> AggEmployees] : n \in 0 .. MaxLen}

InitAgg ==
    /\ dtoIn = [count |-> 0, age |-> [min |-> 0, max |-> 0]]
    /\ tz = 0
    /\ pc = "done"
    /\ dateRange = [minDate |-> 0, maxDate |-> 0, range |-> 0]
    /\ employees \in AggInputs
    /\ usedBirthdates = {}
    /\ i = 0
    /\ pending = NoEmployee
    /\ randomTime = Undefined
    /\ birthdateStr = Undefined
    /\ nameCounts = EmptyCounts
    /\ dtoOut = NoDto
    /\ calls = 0

NextAgg == getEmployeeChartContent

SpecAgg == InitAgg /\ [][NextAgg]_vars

\* ------------------------------------------------- generator: properties
Range(seq) == {seq[j] : j \in 1 .. Len(seq)}

InWindow(t) == dateRange.minDate <= t /\ t <= dateRange.maxDate

PairwiseDistinctBirthdates ==
    \A j, k \in 1 .. Len(employees) :
        j # k => employees[j].birthdate # employees[k].birthdate

\* C1: for a valid config, the array generateEmployeeData returns holds
\* exactly dtoIn.count employees (none when count = 0).
C1_ReturnsCountEmployees ==
    (pc = "done" /\ ValidConfig(dtoIn)) => Len(employees) = dtoIn.count

C1_Witness ==
    /\ pc = "done"
    /\ ValidConfig(dtoIn)
    /\ dtoIn.count = MaxCount
    /\ Len(employees) = MaxCount

\* C2: at every point of a run the birthdate strings of the employees
\* produced so far are pairwise distinct, and the used set holds exactly
\* those strings (each was absent when chosen and is recorded before the
\* next employee is created).
C2_BirthdatesDistinct ==
    /\ PairwiseDistinctBirthdates
    /\ usedBirthdates = {employees[j].birthdate : j \in 1 .. Len(employees)}

\* A second employee is being created and its first sample collided with
\* the string of an earlier employee.
C2_Witness ==
    /\ pc = "birthdate"
    /\ Len(employees) >= 1
    /\ birthdateStr # Undefined
    /\ birthdateStr[1] \in usedBirthdates

\* C3: with age.min = age.max and count > 1, generateEmployeeData
\* terminates and returns count employees with pairwise distinct
\* birthdates.
C3_ZeroSpanTerminates ==
    (dtoIn.age.min = dtoIn.age.max /\ dtoIn.count > 1)
        ~> (pc = "done" /\ Len(employees) = dtoIn.count
                /\ PairwiseDistinctBirthdates)

\* C4: every employee is well-formed: gender is male or female, the name
\* comes from the list of that gender, the surname from the surname list,
\* and the workload is 10, 20, 30 or 40.
C4_EmployeesWellFormed ==
    \A j \in 1 .. Len(employees) :
        LET e == employees[j]
        IN  /\ e.gender \in {"male", "female"}
            /\ e.gender = "male" => e.name \in Range(getNameLists.male)
            /\ e.gender = "female" => e.name \in Range(getNameLists.female)
            /\ e.surname \in Range(getSurnameList)
            /\ e.workload \in {10, 20, 30, 40}

C4_Witness ==
    /\ pc = "done"
    /\ \E j, k \in 1 .. Len(employees) :
         employees[j].gender = "male" /\ employees[k].gender = "female"

\* C10: for a valid config every instant sampled lies in
\* [minDate, maxDate], and so does the instant every employee's birthdate
\* denotes: no employee is younger than age.min or older than age.max.
C10_BirthdatesInWindow ==
    (ValidConfig(dtoIn) /\ pc # "start") =>
        /\ \A t \in Range(randomTime) : InWindow(t)
        /\ \A j \in 1 .. Len(employees) : InWindow(ParseISO(employees[j].birthdate))

\* The part of C10 the code keeps: the sampled instant itself is in the
\* window.
SampledInstantInWindow ==
    (ValidConfig(dtoIn) /\ pc # "start") => \A t \in Range(randomTime) : InWindow(t)

\* ------------------------------------------------ aggregator: properties
Buckets == {"all", "male", "female", "femalePartTime", "maleFullTime"}

\* Whether employee e is counted in bucket b, as the glossary defines it.
CountedIn(b, e) ==
    CASE b = "all"            -> TRUE
      [] b = "male"           -> e.gender = "male"
      [] b = "female"         -> e.gender = "female"
      [] b = "maleFullTime"   -> e.gender = "male" /\ e.workload = 40
      [] b = "femalePartTime" -> e.gender = "female" /\ e.workload # 40

\* Positions of the employees named n that bucket b counts.
Occurrences(b, n) ==
    {j \in 1 .. Len(employees) : employees[j].name = n /\ CountedIn(b, employees[j])}

NamesOf(obj) == {obj[j].name : j \in 1 .. Len(obj)}
LabelsOf(chart) == {chart[j].label : j \in 1 .. Len(chart)}

RECURSIVE SumCounts(_)
SumCounts(obj) == IF obj = <<>> THEN 0 ELSE Head(obj).count + SumCounts(Tail(obj))

RECURSIVE SumValues(_)
SumValues(chart) == IF chart = <<>> THEN 0 ELSE Head(chart).value + SumValues(Tail(chart))

\* names.b holds n exactly once with count c, or not at all when c = 0;
\* chartData.b likewise.
Reports(b, n, c) ==
    LET obj   == dtoOut.names[b]
        chart == dtoOut.chartData[b]
    IN  /\ Cardinality({j \in 1 .. Len(obj) : obj[j].name = n}) = (IF c = 0 THEN 0 ELSE 1)
        /\ \A j \in 1 .. Len(obj) : obj[j].name = n => obj[j].count = c
        /\ Cardinality({j \in 1 .. Len(chart) : chart[j].label = n}) = (IF c = 0 THEN 0 ELSE 1)
        /\ \A j \in 1 .. Len(chart) : chart[j].label = n => chart[j].value = c

\* C5: for an array whose genders are male or female, every bucket reports
\* for every name the number of employees of that name the bucket counts
\* (all: every one; male / female: by gender; maleFullTime: male with
\* workload 40; femalePartTime: female with workload other than 40), and a
\* name counted 0 times is absent; an empty array gives five empty buckets
\* in names and in chartData.
C5_BucketCounts ==
    (calls > 0 /\ \A j \in 1 .. Len(employees) : employees[j].gender \in {"male", "female"})
    => \A b \in Buckets :
         \A n \in {employees[j].name : j \in 1 .. Len(employees)}
                    \cup NamesOf(dtoOut.names[b]) \cup LabelsOf(dtoOut.chartData[b]) :
            Reports(b, n, Cardinality(Occurrences(b, n)))

\* A call has returned on an array with a full-time and a part-time
\* employee of each gender.
C5_Witness ==
    /\ calls > 0
    /\ Len(employees) = MaxLen
    /\ \A j \in 1 .. Len(employees) : employees[j].gender \in {"male", "female"}
    /\ dtoOut.names.maleFullTime # <<>>
    /\ dtoOut.names.femalePartTime # <<>>
    /\ dtoOut.names.male # dtoOut.names.maleFullTime

\* C6: for every array, the counts of bucket all sum to the number of
\* employees, and so do the counts of male and female together.
C6_CountsSumToLength ==
    calls > 0 =>
        /\ SumCounts(dtoOut.names.all) = Len(employees)
        /\ SumCounts(dtoOut.names.male) + SumCounts(dtoOut.names.female) = Len(employees)
        /\ SumValues(dtoOut.chartData.all) = Len(employees)
        /\ SumValues(dtoOut.chartData.male) + SumValues(dtoOut.chartData.female)
             = Len(employees)

\* A call has returned on an array holding an employee whose gender is
\* neither "male" nor "female".
C6_Witness ==
    /\ calls > 0
    /\ \E j \in 1 .. Len(employees) : employees[j].gender = "other"
    /\ \E j \in 1 .. Len(employees) : employees[j].gender = "male"

\* C7: in each bucket the entries are in non-increasing order of count, and
\* chartData.b lists the names of names.b in the same order, each with its
\* count as value.
C7_SortedDescending ==
    calls > 0 =>
        \A b \in Buckets :
            LET obj   == dtoOut.names[b]
                chart == dtoOut.chartData[b]
            IN  /\ \A j \in 1 .. Len(obj) - 1 : obj[j].count >= obj[j + 1].count
                /\ \A j \in 1 .. Len(chart) - 1 : chart[j].value >= chart[j + 1].value
                /\ Len(chart) = Len(obj)
                /\ \A j \in 1 .. Len(obj) :
                     chart[j].label = obj[j].name /\ chart[j].value = obj[j].count

\* A call has returned and the sort moved a name forward: the bucket all
\* lists the names in another order than they were inserted in.
C7_Witness ==
    /\ calls > 0
    /\ dtoOut.names.all # nameCounts.all
    /\ Len(dtoOut.names.all) >= 2

\* The first position in the input array of an employee named n.
FirstInInput(n) ==
    CHOOSE j \in 1 .. Len(employees) :
        /\ employees[j].name = n
        /\ \A k \in 1 .. j - 1 : employees[k].name # n

\* Whether bucket b takes employee e in: as CountedIn, except that every
\* gender other than "male" goes the female way (the else of line 85).
TakenIn(b, e) ==
    CASE b = "all"            -> TRUE
      [] b = "male"           -> e.gender = "male"
      [] b = "female"         -> e.gender # "male"
      [] b = "maleFullTime"   -> e.gender = "male" /\ e.workload = 40
      [] b = "femalePartTime" -> e.gender # "male" /\ e.workload # 40

\* The first position in the input array of an employee named n that
\* bucket b takes in.
FirstInBucket(b, n) ==
    LET taken == {j \in 1 .. Len(employees) :
                     employees[j].name = n /\ TakenIn(b, employees[j])}
    IN  CHOOSE j \in taken : \A k \in taken : j <= k

\* The arrays generateEmployeeData can build, among those drawn.
GeneratedShape ==
    \A j \in 1 .. Len(employees) :
        \/ employees[j].gender = "male" /\ employees[j].name \in Range(getNameLists.male)
        \/ employees[j].gender = "female" /\ employees[j].name \in Range(getNameLists.female)

\* C8 as stated: in each bucket, names with equal counts appear in the
\* order of their first occurrence in the input array (here for the arrays
\* generateEmployeeData can build).
C8_TiesInInputOrder ==
    (calls > 0 /\ GeneratedShape) =>
        \A b \in Buckets :
            LET obj == dtoOut.names[b]
            IN  \A j, k \in 1 .. Len(obj) :
                  (j < k /\ obj[j].count = obj[k].count)
                     => FirstInInput(obj[j].name) < FirstInInput(obj[k].name)

\* C8 amended: in each bucket, names with equal counts appear in the order
\* in which the bucket first counted them, that is the order of their
\* first occurrence among the employees the bucket takes in; in names and
\* in chartData.
C8_TiesInBucketOrder ==
    calls > 0 =>
        \A b \in Buckets :
            LET obj   == dtoOut.names[b]
                chart == dtoOut.chartData[b]
            IN  /\ \A j, k \in 1 .. Len(obj) :
                     (j < k /\ obj[j].count = obj[k].count)
                        => FirstInBucket(b, obj[j].name) < FirstInBucket(b, obj[k].name)
                /\ \A j, k \in 1 .. Len(chart) :
                     (j < k /\ chart[j].value = chart[k].value)
                        => FirstInBucket(b, chart[j].label) < FirstInBucket(b, chart[k].label)

\* A call has returned with two names tied in maleFullTime, the one the
\* bucket counted first being the later of the two in the input array.
C8_Witness ==
    /\ calls > 0
    /\ Len(dtoOut.names.maleFullTime) = 2
    /\ dtoOut.names.maleFullTime[1].count = dtoOut.names.maleFullTime[2].count
    /\ FirstInInput(dtoOut.names.maleFullTime[2].name)
         < FirstInInput(dtoOut.names.maleFullTime[1].name)

====
